---- MODULE Spec2Model ----
(***************************************************************************)
(* Model of glhmm/preproc.py: the preprocessing pipeline and the three     *)
(* design-matrix builders (autoregressive, partial connectivity, TDE).     *)
(*                                                                         *)
(* Arrays are 0-based as in numpy: a matrix is a record                    *)
(*   [rows |-> n, cols |-> m, at |-> [0..n-1 -> [0..m-1 -> value]]]        *)
(* and a SegmentIndex is a function 0..N-1 -> <<start, end>>.              *)
(* Index vectors built by np.arange are TLA+ sequences (1-based), so       *)
(* ind[1] is numpy's ind[0] and ind[Len(ind)] is numpy's ind[-1].          *)
(***************************************************************************)
EXTENDS Integers, Sequences, FiniteSets, TLC

VARIABLES data, indices, call, result

vars == <<data, indices, call, result>>

----------------------------------------------------------------------------
(* Bounds of the explored inputs *)

MaxT == 6
LongT == 7
MaxP == 2
MaxN == 3
MaxOrder == 2
MaxLag == 2
MaxStrength == 3
MaxCompRows == 2
MaxCompValue == 2

----------------------------------------------------------------------------
(* Generic helpers *)

None == [ty |-> "none"]

Min2(a, b) == IF a <= b THEN a ELSE b
Max2(a, b) == IF a >= b THEN a ELSE b

\* np.arange(a, b): the integers a, a+1, ..., b-1 (empty when b <= a)
Arange(a, b) == [m \in 1..Max2(b - a, 0) |-> a + m - 1]

RECURSIVE SumTo(_, _)
SumTo(f, n) == IF n = 0 THEN 0 ELSE f[n - 1] + SumTo(f, n - 1)

\* np.zeros((n, m))
Zeros(n, m) == [rows |-> n, cols |-> m,
                at |-> [r \in 0..(n - 1) |-> [c \in 0..(m - 1) |-> 0]]]

Shape(M) == <<M.rows, M.cols>>

\* M[:, sel] for an index vector sel (a sequence of column numbers)
TakeCols(M, sel) ==
    [rows |-> M.rows, cols |-> Len(sel),
     at |-> [r \in 0..(M.rows - 1) |-> [c \in 0..(Len(sel) - 1) |-> M.at[r][sel[c + 1]]]]]

\* np.where(mask)[0] for a boolean vector mask over 0..n-1: the true positions, ascending
RECURSIVE WhereUpTo(_, _)
WhereUpTo(mask, n) ==
    IF n = 0 THEN <<>>
    ELSE IF mask[n - 1] THEN Append(WhereUpTo(mask, n - 1), n - 1)
         ELSE WhereUpTo(mask, n - 1)

\* M -= np.mean(M, axis=0), kept exact: the result is num/den with den = M.rows
ColSum(M, c) == SumTo([r \in 0..(M.rows - 1) |-> M.at[r][c]], M.rows)

CenterNum(M) ==
    [rows |-> M.rows, cols |-> M.cols,
     at |-> [r \in 0..(M.rows - 1) |->
               [c \in 0..(M.cols - 1) |-> M.rows * M.at[r][c] - ColSum(M, c)]]]

----------------------------------------------------------------------------
(* Inputs: the caller's data array and SegmentIndex *)

SegPairs(T) == {pr \in (0..T) \X (0..T) : pr[1] < pr[2]}

\* input contract of section 6: ordered, half-open, non-overlapping, inside [0,T)
IsSegmentIndex(ix, n, T) ==
    /\ \A j \in 0..(n - 1) : 0 <= ix[j][1] /\ ix[j][1] < ix[j][2] /\ ix[j][2] <= T
    /\ \A j \in 0..(n - 2) : ix[j][2] <= ix[j + 1][1]

SegmentIndexes(T) ==
    UNION {{ix \in [0..(n - 1) -> SegPairs(T)] : IsSegmentIndex(ix, n, T)} : n \in 1..MaxN}

NSeg(ix) == Cardinality(DOMAIN ix)
SegLen(ix, j) == ix[j][2] - ix[j][1]

\* the samples: all of distinct magnitude, the sign alternating from row to row
Samples(T, P) ==
    [rows |-> T, cols |-> P,
     at |-> [t \in 0..(T - 1) |->
               [c \in 0..(P - 1) |-> IF t % 2 = 0 THEN t * P + c + 1 ELSE -(t * P + c + 1)]]]

\* one long single-session recording of one channel
LongRecording == [j \in 0..0 |-> <<0, LongT>>]

\* binary connectivity matrices, regressors by targets
\* (each row is all 0, all 1, only the first target, or all but the first target;
\* for up to two targets these are all the rows there are)
ConnRows(q) ==
    {[c \in 0..(q - 1) |-> 0], [c \in 0..(q - 1) |-> 1],
     [c \in 0..(q - 1) |-> IF c = 0 THEN 1 ELSE 0], [c \in 0..(q - 1) |-> IF c = 0 THEN 0 ELSE 1]}
ConnMatrices(p, q) ==
    {[rows |-> p, cols |-> q, at |-> a] : a \in [0..(p - 1) -> ConnRows(q)]}

----------------------------------------------------------------------------
(* numpy indexing helpers *)

\* a fancy index i into an axis of length n is legal when -n <= i < n; negatives count from the end
InBounds(ind, n) == \A m \in DOMAIN ind : -n <= ind[m] /\ ind[m] < n
NormIdx(i, n) == IF i < 0 THEN i + n ELSE i

\* numpy broadcasting of a value with vlen entries along an axis onto tlen index positions
Broadcastable(vlen, tlen) == vlen = tlen \/ vlen = 1

\* M[rowInd, colInd[:,np.newaxis]] = V.T   where V is a sequence of rows (functions over 0..Len(colInd)-1)
PutBlock(M, rowInd, colInd, V) ==
    [M EXCEPT !.at =
        [r \in 0..(M.rows - 1) |->
            [cc \in 0..(M.cols - 1) |->
                IF /\ \E m \in DOMAIN rowInd : NormIdx(rowInd[m], M.rows) = r
                   /\ \E c \in DOMAIN colInd : colInd[c] = cc
                THEN LET m == CHOOSE m \in DOMAIN rowInd : NormIdx(rowInd[m], M.rows) = r
                         c == CHOOSE c \in DOMAIN colInd : colInd[c] = cc
                     IN  V[IF Len(V) = 1 THEN 1 ELSE m][c - 1]
                ELSE M.at[r][cc]]]]

\* data[ind, :] as a sequence of rows
Rows(M, ind) == [m \in DOMAIN ind |-> M.at[NormIdx(ind[m], M.rows)]]

----------------------------------------------------------------------------
(* build_data_autoregressive *)

\* the index vectors of segment [s, e) for order k
ArInd1(s, e, k) == Arange(s + k, e)
ArInd2(s, e, k, j) == [m \in DOMAIN Arange(s, e - k) |-> Arange(s, e - k)[m] - j * k]
\* variant that reads lag i instead of lag i+1
ArInd3_OffByOne(s, e, k, i) == Arange(s + k - i, e - i)
ArInd3(s, e, k, i) == Arange(s + k - (i + 1), e - (i + 1))
ArIndCh(p, i) == [c \in 1..p |-> (c - 1) + i * p]

\* loop body of one segment j; acc carries X, Y, indices_new and the exception raised so far
ArSegment(d, ix, k, j, acc) ==
    LET p     == d.cols
        s     == ix[j][1]
        e     == ix[j][2]
        ind_1 == ArInd1(s, e, k)
        ind_2 == ArInd2(s, e, k, j)
        Y1    == PutBlock(acc.Y, ind_2, Arange(0, p), Rows(d, ind_1))
        FillX[i \in 0..k] ==
            IF i = 0 THEN acc.X
            ELSE PutBlock(FillX[i - 1], ind_2, ArIndCh(p, i - 1), Rows(d, ArInd3(s, e, k, i - 1)))
    IN  IF ~InBounds(ind_2, acc.Y.rows) \/ ~InBounds(ind_1, d.rows)
        THEN [acc EXCEPT !.status = "IndexError"]
        ELSE IF ~Broadcastable(Len(ind_1), Len(ind_2))
        THEN [acc EXCEPT !.status = "ValueError"]
        ELSE IF Len(ind_2) = 0
        THEN \* ind_2[0] on an empty vector, after the (empty) assignments
             [acc EXCEPT !.status = "IndexError", !.Y = Y1, !.X = FillX[k], !.filled = j + 1]
        ELSE [acc EXCEPT !.Y = Y1, !.X = FillX[k], !.filled = j + 1,
                         !.indices_new = [@ EXCEPT ![j] = <<ind_2[1], ind_2[Len(ind_2)] + 1>>]]

RECURSIVE ArLoop(_, _, _, _, _)
ArLoop(d, ix, k, j, acc) ==
    IF j = NSeg(ix) \/ acc.status # "ok" THEN acc
    ELSE ArLoop(d, ix, k, j + 1, ArSegment(d, ix, k, j, acc))

\* np.tile of the p x p connectivity over the lag blocks
TileConnectivity(conn, k) ==
    [rows |-> k * conn.rows, cols |-> conn.cols,
     at |-> [r \in 0..(k * conn.rows - 1) |-> conn.at[r % conn.rows]]]

\* jj = np.where(conn[:,j]==0)[0], as a set: the regressors regressed out of target j
Disallowed(conn, j) == {r \in 0..(conn.rows - 1) : conn.at[r][j] = 0}

\* active regressors (rows with a 1) and active targets (columns with a 1)
ActiveX(conn) ==
    WhereUpTo([j \in 0..(conn.rows - 1) |-> \E c \in 0..(conn.cols - 1) : conn.at[j][c] = 1], conn.rows)
ActiveY(conn) ==
    WhereUpTo([j \in 0..(conn.cols - 1) |-> \E r \in 0..(conn.rows - 1) : conn.at[r][j] = 1], conn.cols)

\* conn[active_X, active_Y[:,np.newaxis]].T
RestrictConnectivity(conn, aX, aY) ==
    [rows |-> Len(aX), cols |-> Len(aY),
     at |-> [r \in 0..(Len(aX) - 1) |-> [c \in 0..(Len(aY) - 1) |-> conn.at[aX[r + 1]][aY[c + 1]]]]]

\* np.tile(active_X, k) followed by np.where
TileActive(aX, p, k) ==
    WhereUpTo([r \in 0..(k * p - 1) |-> \E m \in DOMAIN aX : aX[m] = r % p], k * p)

\* variant that forgets the connectivity it was given
ArNoOp_DropsConnectivity(d, ix, conn) ==
    [status |-> "ok", warned |-> TRUE, X |-> Zeros(0, 0), Y |-> d, den |-> 1,
     indices_new |-> ix, connectivity_new |-> None, regressed |-> <<>>]

\* autoregressive_order == 0: warn and hand the arguments back
ArNoOp(d, ix, conn) ==
    [status |-> "ok", warned |-> TRUE, X |-> Zeros(0, 0), Y |-> d, den |-> 1,
     indices_new |-> ix, connectivity_new |-> conn, regressed |-> <<>>]

\* The returned X and Y hold exact numerators over the common denominator den
\* (den = 1 without centering).  The least-squares fit subtracted from a target
\* is not evaluated: regressed[c] names the X columns whose fit was subtracted
\* from returned Y column c.
build_data_autoregressive(d, ix, k, conn, center) ==
    LET T == d.rows
        p == d.cols
        N == NSeg(ix)
    IN  IF k = 0
        THEN ArNoOp(d, ix, conn)
        ELSE IF T - N * k < 0
        THEN [status |-> "ValueError", warned |-> FALSE, allocated |-> FALSE, filled |-> 0]
        ELSE
        LET acc0 == [status |-> "ok", X |-> Zeros(T - N * k, p * k), Y |-> Zeros(T - N * k, p),
                     indices_new |-> [j \in 0..(N - 1) |-> <<0, 0>>], filled |-> 0]
            acc  == ArLoop(d, ix, k, 0, acc0)
            Xc   == IF center THEN CenterNum(acc.X) ELSE acc.X
            Yc   == IF center THEN CenterNum(acc.Y) ELSE acc.Y
            den  == IF center THEN acc.Y.rows ELSE 1
        IN  IF acc.status # "ok"
            THEN [status |-> acc.status, warned |-> FALSE, allocated |-> TRUE, filled |-> acc.filled]
            ELSE IF conn = None
            THEN [status |-> "ok", warned |-> FALSE, X |-> Xc, Y |-> Yc, den |-> den,
                  indices_new |-> acc.indices_new, connectivity_new |-> None,
                  regressed |-> [c \in 0..(p - 1) |-> {}]]
            ELSE
            LET cnew == TileConnectivity(conn, k)
                aY   == ActiveY(conn)
                aX   == TileActive(ActiveX(conn), p, k)
            IN  [status |-> "ok", warned |-> FALSE,
                 X |-> TakeCols(Xc, aX), Y |-> TakeCols(Yc, aY), den |-> den,
                 indices_new |-> acc.indices_new,
                 connectivity_new |-> RestrictConnectivity(cnew, aX, aY),
                 regressed |-> [c \in 0..(Len(aY) - 1) |-> Disallowed(cnew, aY[c + 1])]]

----------------------------------------------------------------------------
(* build_data_partial_connectivity *)

\* X_new and Y_new are the copies made on entry; the pruned X[:,active_X] and
\* Y[:,active_Y] are bound to the local names X and Y, which are not returned.
build_data_partial_connectivity(X, Y, conn, center) ==
    LET Xn == IF center THEN CenterNum(X) ELSE X
        Yn == IF center THEN CenterNum(Y) ELSE Y
        den == IF center THEN Y.rows ELSE 1
    IN  IF conn = None
        THEN [status |-> "ok", X |-> Xn, Y |-> Yn, den |-> den, connectivity_new |-> None,
              regressed |-> [c \in 0..(Y.cols - 1) |-> {}]]
        ELSE [status |-> "ok", X |-> Xn, Y |-> Yn, den |-> den,
              connectivity_new |-> RestrictConnectivity(conn, ActiveX(conn), ActiveY(conn)),
              regressed |-> [c \in 0..(Y.cols - 1) |-> Disallowed(conn, c)]]

----------------------------------------------------------------------------
(* build_data_tde *)

RECURSIVE SeqMin(_)
SeqMin(q) == IF Len(q) = 1 THEN q[1] ELSE Min2(q[1], SeqMin(Tail(q)))
RECURSIVE SeqMax(_)
SeqMax(q) == IF Len(q) = 1 THEN q[1] ELSE Max2(q[1], SeqMax(Tail(q)))

\* Python slice a[start:stop] on an axis of length n: the positions it keeps
PySliceBound(i, n) == IF i < 0 THEN Max2(i + n, 0) ELSE Min2(i, n)
PySlice(start, stop, n) == Arange(PySliceBound(start, n), PySliceBound(stop, n))

\* np.roll(a, l, axis=0) on n rows: row t of the result is row (t - l) mod n of a;
\* RollSource is the position before the reduction modulo n
RollSource(t, l) == t - l
Roll(rows, l) == [m \in DOMAIN rows |-> rows[(RollSource(m - 1, l) % Len(rows)) + 1]]

\* X_l[-minlag:-maxlag, :]
TdeClip(minlag, maxlag, n) == PySlice(-minlag, -maxlag, n)

TdeInd2(s, e, rwindow, j) ==
    [m \in DOMAIN Arange(s, e - rwindow) |-> Arange(s, e - rwindow)[m] - j * rwindow]

\* np.arange(i, L*p, L): the column of lag number i for each channel
TdeIndCh(i, L, p) == [c \in 1..p |-> i + (c - 1) * L]

\* the rows of X_l after rolling by l and clipping
TdeLagRows(segrows, minlag, maxlag, l) ==
    LET rolled == Roll(segrows, l)
        keep   == TdeClip(minlag, maxlag, Len(segrows))
    IN  [m \in DOMAIN keep |-> rolled[keep[m] + 1]]

TdeSegment(d, ix, lags, j, acc) ==
    LET p       == d.cols
        L       == Len(lags)
        minlag  == SeqMin(lags)
        maxlag  == SeqMax(lags)
        rwindow == maxlag - minlag
        s       == ix[j][1]
        e       == ix[j][2]
        ind_1   == Arange(s, e)
        ind_2   == TdeInd2(s, e, rwindow, j)
        segrows == Rows(d, ind_1)
        Fill[i \in 0..L] ==
            IF i = 0 THEN [status |-> "ok", X |-> acc.X]
            ELSE LET prev == Fill[i - 1]
                     X_l  == TdeLagRows(segrows, minlag, maxlag, lags[i])
                 IN  IF prev.status # "ok" THEN prev
                     ELSE IF ~InBounds(ind_2, acc.X.rows)
                     THEN [prev EXCEPT !.status = "IndexError"]
                     ELSE IF ~Broadcastable(Len(X_l), Len(ind_2))
                     THEN [prev EXCEPT !.status = "ValueError"]
                     ELSE [prev EXCEPT !.X = PutBlock(prev.X, ind_2, TdeIndCh(i - 1, L, p), X_l)]
    IN  IF ~InBounds(ind_1, d.rows)
        THEN [acc EXCEPT !.status = "IndexError"]
        ELSE IF Fill[L].status # "ok"
        THEN [acc EXCEPT !.status = Fill[L].status, !.X = Fill[L].X]
        ELSE IF Len(ind_2) = 0
        THEN [acc EXCEPT !.status = "IndexError", !.X = Fill[L].X, !.filled = j + 1]
        ELSE [acc EXCEPT !.X = Fill[L].X, !.filled = j + 1,
                         !.indices_new = [@ EXCEPT ![j] = <<ind_2[1], ind_2[Len(ind_2)] + 1>>]]

RECURSIVE TdeLoop(_, _, _, _, _)
TdeLoop(d, ix, lags, j, acc) ==
    IF j = NSeg(ix) \/ acc.status # "ok" THEN acc
    ELSE TdeLoop(d, ix, lags, j + 1, TdeSegment(d, ix, lags, j, acc))

\* pca=None.  X holds the embedded samples; standardised = "global" records that the
\* returned matrix is (X - mean(X,axis=0)) / std(X,axis=0) taken over all rows at once.
build_data_tde(d, ix, lags) ==
    LET T == d.rows
        p == d.cols
        N == NSeg(ix)
        L == Len(lags)
        rwindow == SeqMax(lags) - SeqMin(lags)
    IN  IF T - N * rwindow < 0
        THEN [status |-> "ValueError", allocated |-> FALSE, filled |-> 0]
        ELSE
        LET acc0 == [status |-> "ok", X |-> Zeros(T - N * rwindow, p * L),
                     indices_new |-> [j \in 0..(N - 1) |-> <<0, 0>>], filled |-> 0]
            acc  == TdeLoop(d, ix, lags, 0, acc0)
        IN  IF acc.status # "ok"
            THEN [status |-> acc.status, allocated |-> TRUE, filled |-> acc.filled]
            ELSE [status |-> "ok", X |-> acc.X, standardised |-> "global",
                  indices_new |-> acc.indices_new]

----------------------------------------------------------------------------
(* IEEE-754 binary64 arithmetic on positive values, as used by              *)
(*   factor = downsample / fs ;  np.ceil(factor * (end - start))            *)
(* A double is [m |-> limbs, e |-> k].  limbs = <<m0, m1, m2, m3, m4>> is   *)
(* the 53-bit significand: m0 holds the top 9 bits (256..511) and m1..m4    *)
(* hold 11 bits each; the value is (significand as an integer) * 2^k.       *)
(* All operands here (rates, segment lengths, results) are below 2^20.      *)

LimbBits == 11
LimbBase == 2048
TopLimbBase == 512

RECURSIVE Pow2(_)
Pow2(n) == IF n = 0 THEN 1 ELSE 2 * Pow2(n - 1)

\* largest k >= 0 with b * 2^k <= a   (for a >= b > 0)
RECURSIVE ShiftUp(_, _)
ShiftUp(a, b) == IF 2 * b <= a THEN 1 + ShiftUp(a, 2 * b) ELSE 0

\* smallest k >= 0 with b <= a * 2^k   (for 0 < a)
RECURSIVE ShiftDown(_, _)
ShiftDown(a, b) == IF a >= b THEN 0 ELSE 1 + ShiftDown(2 * a, b)

\* significand + 1; reaching 2^53 renormalises to 2^52 with the exponent raised
IncSignificand(x) ==
    LET m  == x.m
        c4 == IF m[5] + 1 = LimbBase THEN 1 ELSE 0
        c3 == IF m[4] + c4 = LimbBase THEN 1 ELSE 0
        c2 == IF m[3] + c3 = LimbBase THEN 1 ELSE 0
        c1 == IF m[2] + c2 = LimbBase THEN 1 ELSE 0
    IN  IF m[1] + c1 = TopLimbBase
        THEN [m |-> <<TopLimbBase \div 2, 0, 0, 0, 0>>, e |-> x.e + 1]
        ELSE [m |-> <<m[1] + c1, (m[2] + c2) % LimbBase, (m[3] + c3) % LimbBase,
                      (m[4] + c4) % LimbBase, (m[5] + 1) % LimbBase>>,
              e |-> x.e]

\* round to nearest, ties to even, given the first discarded bit and whether any later one is set
RoundNearestEven(x, guard, sticky) ==
    IF guard = 1 /\ (sticky \/ x.m[5] % 2 = 1) THEN IncSignificand(x) ELSE x

\* a / b in binary64 for positive integers a, b: long division of the normalised
\* quotient in [1, 2), 8 + 4*11 fraction bits, then the guard bit and the sticky rest
FloatDiv(a, b) ==
    LET up  == IF a >= b THEN ShiftUp(a, b) ELSE 0
        dn  == IF a >= b THEN 0 ELSE ShiftDown(a, b)
        num == a * Pow2(dn)
        den == b * Pow2(up)
        r0  == num - den
        d0  == (r0 * 256) \div den
        r1  == (r0 * 256) % den
        d1  == (r1 * LimbBase) \div den
        r2  == (r1 * LimbBase) % den
        d2  == (r2 * LimbBase) \div den
        r3  == (r2 * LimbBase) % den
        d3  == (r3 * LimbBase) \div den
        r4  == (r3 * LimbBase) % den
        d4  == (r4 * LimbBase) \div den
        r5  == (r4 * LimbBase) % den
        g   == (r5 * 2) \div den
        r6  == (r5 * 2) % den
    IN  RoundNearestEven([m |-> <<256 + d0, d1, d2, d3, d4>>, e |-> (up - dn) - 52], g, r6 # 0)

\* x * n in binary64 for a double x and a positive integer n: exact limb product,
\* then the s surplus low bits are shifted out and rounded
FloatMulInt(x, n) ==
    LET v4 == x.m[5] * n
        v3 == x.m[4] * n + v4 \div LimbBase
        v2 == x.m[3] * n + v3 \div LimbBase
        v1 == x.m[2] * n + v2 \div LimbBase
        v0 == x.m[1] * n + v1 \div LimbBase
        l1 == v1 % LimbBase
        l2 == v2 % LimbBase
        l3 == v3 % LimbBase
        l4 == v4 % LimbBase
        s  == ShiftUp(v0, TopLimbBase \div 2)
        w  == Pow2(s)
        n0 == v0 \div w
        c0 == v0 % w
        n1 == (c0 * LimbBase + l1) \div w
        c1 == (c0 * LimbBase + l1) % w
        n2 == (c1 * LimbBase + l2) \div w
        c2 == (c1 * LimbBase + l2) % w
        n3 == (c2 * LimbBase + l3) \div w
        c3 == (c2 * LimbBase + l3) % w
        n4 == (c3 * LimbBase + l4) \div w
        c4 == (c3 * LimbBase + l4) % w
    IN  IF s = 0 THEN [m |-> <<v0, l1, l2, l3, l4>>, e |-> x.e]
        ELSE RoundNearestEven([m |-> <<n0, n1, n2, n3, n4>>, e |-> x.e + s],
                              c4 \div (w \div 2), c4 % (w \div 2) # 0)

\* the part of limb v (of weight 2^wt) at or above the binary point when nfrac bits are fractional
LimbInt(v, wt, nfrac) ==
    IF wt >= nfrac THEN v * Pow2(wt - nfrac)
    ELSE IF nfrac - wt > LimbBits THEN 0
    ELSE v \div Pow2(nfrac - wt)
LimbFrac(v, wt, nfrac) ==
    IF wt >= nfrac THEN 0
    ELSE IF nfrac - wt > LimbBits THEN v
    ELSE v % Pow2(nfrac - wt)

\* np.ceil(x).astype(int) for a positive double x below 2^31
FloatCeil(x) ==
    LET nfrac == -x.e
        wt    == <<44, 33, 22, 11, 0>>
        ipart == LimbInt(x.m[1], 44, nfrac) + LimbInt(x.m[2], 33, nfrac) + LimbInt(x.m[3], 22, nfrac)
                   + LimbInt(x.m[4], 11, nfrac) + LimbInt(x.m[5], 0, nfrac)
        frac  == \E i \in 1..5 : LimbFrac(x.m[i], wt[i], nfrac) # 0
    IN  ipart + (IF frac THEN 1 ELSE 0)

----------------------------------------------------------------------------
(* Python values of the dynamically typed arguments *)

PyBool(b) == [ty |-> "bool", v |-> b]
PyInt(n) == [ty |-> "int", v |-> n]
PyPair(a, b) == [ty |-> "tuple", first |-> a, second |-> b]

\* truth value in an `if x:` test
Truthy(x) ==
    CASE x.ty = "none" -> FALSE
      [] x.ty = "bool" -> x.v
      [] x.ty = "int"  -> x.v # 0

\* isinstance(x, int): bool is a subclass of int
IsInstanceInt(x) == x.ty \in {"bool", "int"}

\* the number a Python value stands for in arithmetic (True == 1, False == 0)
PyNum(x) == IF x.ty = "bool" THEN (IF x.v THEN 1 ELSE 0) ELSE x.v

----------------------------------------------------------------------------
(* apply_pca / apply_ica: the sign convention applied to the fitted transform *)

RECURSIVE MaxOver(_, _)
MaxOver(col, n) == IF n = 1 THEN col[0] ELSE Max2(col[n - 1], MaxOver(col, n - 1))

Abs(v) == IF v < 0 THEN -v ELSE v

Column(M, j) == [r \in 0..(M.rows - 1) |-> M.at[r][j]]

\* jj = np.where(np.abs(X[:,j]) == np.abs(np.max(X[:,j])))[0][0]
SignPivot(col, n) ==
    CHOOSE r \in 0..(n - 1) :
        /\ Abs(col[r]) = Abs(MaxOver(col, n))
        /\ \A q \in 0..(r - 1) : Abs(col[q]) # Abs(MaxOver(col, n))

\* if X[jj,j] < 0: X[:,j] *= -1
FlipColumn(col, n) == IF col[SignPivot(col, n)] < 0 THEN [r \in 0..(n - 1) |-> -col[r]] ELSE col

SignConvention(M) ==
    [M EXCEPT !.at = [r \in 0..(M.rows - 1) |->
                         [j \in 0..(M.cols - 1) |-> FlipColumn(Column(M, j), M.rows)[r]]]]

\* d is an integer >= 1; Z is what the fitted estimator's transform(X) returned
apply_pca(X, d, Z) == [status |-> "ok", X |-> SignConvention(Z), model |-> "PCA"]
apply_ica(X, d, Z) == [status |-> "ok", X |-> SignConvention(Z), model |-> "FastICA"]

\* apply_pca with a precomputed projection matrix d (type(d) is np.ndarray)

RECURSIVE DotTo(_, _, _)
DotTo(a, b, n) == IF n = 0 THEN 0 ELSE a[n - 1] * b[n - 1] + DotTo(a, b, n - 1)

\* A @ B
MatMul(A, B) ==
    [rows |-> A.rows, cols |-> B.cols,
     at |-> [r \in 0..(A.rows - 1) |->
               [c \in 0..(B.cols - 1) |-> DotTo(A.at[r], Column(B, c), A.cols)]]]

\* X -= np.mean(X,axis=0) acts on the array object the caller passed: what that
\* array holds afterwards, as exact numerators over the denominator den = rows
\* (subtracting a zero mean leaves every entry as it was)
InPlaceCenter(X) ==
    IF \A c \in 0..(X.cols - 1) : ColSum(X, c) = 0 THEN X
    ELSE [rows |-> X.rows, cols |-> X.cols, at |-> CenterNum(X).at, den |-> X.rows]

\* the returned array is a new one (X = X @ d), divided by its column deviations:
\* X holds the numerators of the centred projection over den, and
\* standardised = "global" records the division by np.std(X,axis=0); no sign
\* convention is applied and no estimator is returned
apply_pca_precomputed(X, d) ==
    [status |-> "ok", X |-> MatMul(CenterNum(X), d), den |-> X.rows,
     standardised |-> "global", model |-> None]

\* apply_pca with a fraction d < 1 of explained variance, d = dnum / FracDen.
\* Z is what the full fitted estimator's transform(X) returned and cum is
\* np.cumsum(pcamodel.explained_variance_ratio_) in units of 1 / FracDen
FracDen == 4

\* ncomp = np.where(np.cumsum(...) >= d)[0][0] + 1
FractionComponents(cum, m, dnum) ==
    1 + (CHOOSE i \in 0..(m - 1) :
            /\ cum[i] >= dnum
            /\ \A q \in 0..(i - 1) : cum[q] < dnum)

apply_pca_fraction(X, dnum, Z, cum) ==
    LET ncomp == FractionComponents(cum, Z.cols, dnum)
    IN  [status |-> "ok", X |-> SignConvention(TakeCols(Z, Arange(0, ncomp))), model |-> "PCA"]

----------------------------------------------------------------------------
(* dampen_peaks *)

RECURSIVE SumEntries(_, _, _)
SumEntries(M, n, pw) ==
    IF n = 0 THEN 0
    ELSE LET v == M.at[(n - 1) \div M.cols][(n - 1) % M.cols]
         IN  (IF pw = 2 THEN v * v ELSE v) + SumEntries(M, n - 1, pw)

\* x_mask = np.abs(X) > 2*np.std(X), the deviation taken over all entries at once:
\* |x| > 2*std  iff  x^2 * n^2 > 4 * (n * sum(x^2) - sum(x)^2)
PeakMask(X) ==
    LET n  == X.rows * X.cols
        s1 == SumEntries(X, n, 1)
        s2 == SumEntries(X, n, 2)
    IN  [r \in 0..(X.rows - 1) |->
           [c \in 0..(X.cols - 1) |-> X.at[r][c] * X.at[r][c] * n * n > 4 * (n * s2 - s1 * s1)]]

\* X_transformed = X.copy() with the masked entries replaced by their logarithmic
\* image in base strength: the result keeps X's entries where dampened is FALSE
dampen_peaks(X, strength) ==
    [status |-> "ok", X |-> X, dampened |-> PeakMask(X), strength |-> strength]

----------------------------------------------------------------------------
(* preprocess_data *)

\* auxiliary.make_indices_from_T: cumulative offsets starting at 0
make_indices_from_T(Tn) ==
    [j \in DOMAIN Tn |-> <<SumTo(Tn, j), SumTo(Tn, j) + Tn[j]>>]

RECURSIVE Gcd(_, _)
Gcd(a, b) == IF b = 0 THEN a ELSE Gcd(b, a % b)

\* rows returned by signal.resample_poly(x, up, down) for n input rows
ResamplePolyLen(n, up, down) == (n * up) \div down + (IF (n * up) % down # 0 THEN 1 ELSE 0)

\* Tnew = np.ceil(factor * (indices[:,1]-indices[:,0])).astype(int), factor = downsample / fs
ResampleTnew(ix, downsample, fs) ==
    [j \in DOMAIN ix |-> FloatCeil(FloatMulInt(FloatDiv(downsample, fs), SegLen(ix, j)))]

\* the assignment data_new[tnew,:] = resample_poly(...) for each segment in turn:
\* the number of segments written before a shape mismatch, or N when all fit
RECURSIVE ResampleFill(_, _, _, _, _)
ResampleFill(ix, Tn, up, down, j) ==
    IF j = NSeg(ix) THEN j
    ELSE IF Broadcastable(ResamplePolyLen(SegLen(ix, j), up, down), Tn[j])
         THEN ResampleFill(ix, Tn, up, down, j + 1)
         ELSE j

\* strength handed to dampen_peaks
DampenStrength(dep) == IF IsInstanceInt(dep) THEN dep ELSE PyInt(5)

DampenStages(dep) ==
    IF Truthy(dep)
    THEN <<[stage |-> "center"], [stage |-> "dampen_peaks", strength |-> DampenStrength(dep)]>>
    ELSE <<>>

FilterStages(filter) ==
    IF filter = None THEN <<>>
    ELSE IF filter.first = PyInt(0) THEN <<[stage |-> "filter", mode |-> "lowpass"]>>
    ELSE IF filter.second = None THEN <<[stage |-> "filter", mode |-> "highpass"]>>
    ELSE <<[stage |-> "filter", mode |-> "bandpass"]>>

PowerPhaseStages(onpower, onphase) ==
    IF onpower /\ ~onphase THEN <<[stage |-> "power"]>>
    ELSE IF onphase /\ ~onpower THEN <<[stage |-> "phase"]>>
    ELSE IF onpower /\ onphase THEN <<[stage |-> "power_and_phase"]>>
    ELSE <<>>

\* component count for d: an integer >= 1 is the count; the fraction 0 is reached by the
\* first component already
ResolveComponents(d) == IF PyNum(d) >= 1 THEN PyNum(d) ELSE 1

ReductionStages(pca, ica) ==
    (IF pca # None /\ ica = None
     THEN <<[stage |-> "pca", ncomp |-> ResolveComponents(pca)]>> ELSE <<>>)
    \o (IF ica # None THEN <<[stage |-> "ica", ncomp |-> ResolveComponents(ica)]>> ELSE <<>>)

PostStandardise(pca, ica, post) ==
    LET resolved == IF post = None THEN Truthy(ica) ELSE post.v
    IN  (Truthy(pca) \/ Truthy(ica)) /\ resolved

PostStages(pca, ica, post) ==
    IF PostStandardise(pca, ica, post) THEN <<[stage |-> "post_standardise"]>> ELSE <<>>

\* The conditioning and reduction stages are numerical routines: the result records
\* which stages ran, in order, with their resolved parameters, and the shape of the
\* returned array together with the returned SegmentIndex.
preprocess_data(d, ix, cfg) ==
    LET stages == DampenStages(cfg.dampen_extreme_peaks)
                    \o (IF cfg.standardise THEN <<[stage |-> "standardise"]>> ELSE <<>>)
                    \o FilterStages(cfg.filter)
                    \o (IF cfg.detrend THEN <<[stage |-> "detrend"]>> ELSE <<>>)
                    \o PowerPhaseStages(cfg.onpower, cfg.onphase)
                    \o ReductionStages(cfg.pca, cfg.ica)
                    \o PostStages(cfg.pca, cfg.ica, cfg.post_standardise)
        p1 == IF cfg.onpower /\ cfg.onphase THEN 2 * d.cols ELSE d.cols
        p2 == IF cfg.pca # None /\ cfg.ica = None THEN ResolveComponents(cfg.pca) ELSE p1
        p  == IF cfg.ica # None THEN ResolveComponents(cfg.ica) ELSE p2
    IN  IF cfg.downsample = None
        THEN [status |-> "ok", rows |-> d.rows, cols |-> p, indices_new |-> ix, stages |-> stages]
        ELSE
        LET dn   == cfg.downsample.v
            Tn   == ResampleTnew(ix, dn, cfg.fs)
            inew == make_indices_from_T(Tn)
            g    == Gcd(dn, cfg.fs)
            done == ResampleFill(ix, Tn, dn \div g, cfg.fs \div g, 0)
        IN  IF done < NSeg(ix)
            THEN [status |-> "ValueError", stages |-> stages, filled |-> done]
            ELSE [status |-> "ok", rows |-> SumTo(Tn, NSeg(ix)), cols |-> p,
                  indices_new |-> inew, stages |-> Append(stages, [stage |-> "resample"])]

----------------------------------------------------------------------------
(* State machine: the caller owns data and indices and makes one call *)

NoCall == [op |-> "none"]

Init ==
    /\ \/ \E T \in 1..MaxT, P \in 1..MaxP :
            /\ data = Samples(T, P)
            /\ indices \in SegmentIndexes(T)
       \/ /\ data = Samples(LongT, 1)
          /\ indices = LongRecording
    /\ call = NoCall
    /\ result = None

\* connectivity and centering arguments tried: centering on and off without
\* connectivity, and every connectivity with the default centering
ConnCenterArgs(p, q) ==
    {<<None, c>> : c \in BOOLEAN} \cup {<<cm, TRUE>> : cm \in ConnMatrices(p, q)}

BuildDataAutoregressive ==
    /\ call = NoCall
    /\ \E k \in 0..MaxOrder, cc \in ConnCenterArgs(data.cols, data.cols) :
       LET conn == cc[1]  center == cc[2] IN
         /\ call' = [op |-> "build_data_autoregressive", order |-> k,
                     connectivity |-> conn, center_data |-> center]
         /\ result' = build_data_autoregressive(data, indices, k, conn, center)
    /\ UNCHANGED <<data, indices>>

\* the caller splits the channels of data into regressors X and targets Y
FirstCols(M, n) == TakeCols(M, Arange(0, n))
LastCols(M, n) == TakeCols(M, Arange(M.cols - n, M.cols))

BuildDataPartialConnectivity ==
    /\ call = NoCall
    /\ \E px \in 1..data.cols, q \in 1..data.cols :
         \E cc \in ConnCenterArgs(px, q) :
         LET conn == cc[1]  center == cc[2] IN
           /\ call' = [op |-> "build_data_partial_connectivity", X |-> FirstCols(data, px),
                       Y |-> LastCols(data, q), connectivity |-> conn, center_data |-> center]
           /\ result' = build_data_partial_connectivity(FirstCols(data, px), LastCols(data, q), conn, center)
    /\ UNCHANGED <<data, indices>>

\* lag lists: the non-empty ascending lists over -MaxLag..MaxLag
RECURSIVE SortedSeq(_)
SortedSeq(S) ==
    IF S = {} THEN <<>>
    ELSE LET m == CHOOSE x \in S : \A y \in S : x <= y
         IN  <<m>> \o SortedSeq(S \ {m})

LagLists == {SortedSeq(S) : S \in (SUBSET (-MaxLag..MaxLag)) \ {{}}}

BuildDataTde ==
    /\ call = NoCall
    /\ \E lags \in LagLists :
         /\ call' = [op |-> "build_data_tde", lags |-> lags]
         /\ result' = build_data_tde(data, indices, lags)
    /\ UNCHANGED <<data, indices>>

\* values tried for dampen_extreme_peaks: None, True, False and explicit strengths
DampenValues == {None, PyBool(TRUE), PyBool(FALSE)} \cup {PyInt(b) : b \in 2..MaxStrength}

\* component-count arguments tried for pca and ica
ReductionValues == {None, PyInt(0), PyInt(1)}

\* source rates and target rates tried
FsValues == {1, 4, 7}
DownsampleValues == {1, 2, 29}

DefaultConfig ==
    [fs |-> 1, dampen_extreme_peaks |-> None, standardise |-> TRUE, filter |-> None,
     detrend |-> FALSE, onpower |-> FALSE, onphase |-> FALSE, pca |-> None, ica |-> None,
     post_standardise |-> None, downsample |-> None]

\* conditioning options, reduction options and resampling options are each varied
\* against the defaults of the others
PreprocessConfigs ==
    {[DefaultConfig EXCEPT !.dampen_extreme_peaks = dv, !.standardise = sd] :
        dv \in DampenValues, sd \in BOOLEAN}
    \cup {[DefaultConfig EXCEPT !.filter = f, !.detrend = dt] :
        f \in {None, PyPair(PyInt(0), PyInt(1)), PyPair(PyInt(1), None), PyPair(PyInt(1), PyInt(2))},
        dt \in BOOLEAN}
    \cup {[DefaultConfig EXCEPT !.onpower = a, !.onphase = b] : a \in BOOLEAN, b \in BOOLEAN}
    \cup {[DefaultConfig EXCEPT !.pca = pc, !.ica = ic, !.post_standardise = ps] :
        pc \in ReductionValues, ic \in ReductionValues,
        ps \in {None, PyBool(TRUE), PyBool(FALSE)}}
    \cup {[DefaultConfig EXCEPT !.fs = f, !.downsample = PyInt(dn)] :
        f \in FsValues, dn \in DownsampleValues}

PreprocessData ==
    /\ call = NoCall
    /\ \E cfg \in PreprocessConfigs :
         /\ call' = [op |-> "preprocess_data", cfg |-> cfg]
         /\ result' = preprocess_data(data, indices, cfg)
    /\ UNCHANGED <<data, indices>>

\* what the fitted estimator's transform may return: any matrix of small values
CompValues == (-MaxCompValue)..MaxCompValue
\* (component j is a first component rotated by j samples, negated when j is odd)
Transforms(n, d) ==
    {[rows |-> n, cols |-> d,
      at |-> [r \in 0..(n - 1) |->
                [j \in 0..(d - 1) |-> IF j % 2 = 0 THEN col[(r + j) % n] ELSE -col[(r + j) % n]]]] :
        col \in [0..(n - 1) -> CompValues]}

ApplyPca ==
    /\ call = NoCall
    /\ data.rows <= MaxCompRows
    /\ \E d \in 1..data.cols :
         \E Z \in Transforms(data.rows, d) :
           /\ call' = [op |-> "apply_pca", d |-> d, transformed |-> Z]
           /\ result' = apply_pca(data, d, Z)
    /\ UNCHANGED <<data, indices>>

ApplyIca ==
    /\ call = NoCall
    /\ data.rows <= MaxCompRows
    /\ \E d \in 1..data.cols :
         \E Z \in Transforms(data.rows, d) :
           /\ call' = [op |-> "apply_ica", d |-> d, transformed |-> Z]
           /\ result' = apply_ica(data, d, Z)
    /\ UNCHANGED <<data, indices>>

\* precomputed projection matrices tried: the first n coordinate axes, or their negation
Projections(p, n) ==
    {[rows |-> p, cols |-> n,
      at |-> [r \in 0..(p - 1) |-> [c \in 0..(n - 1) |-> IF r = c THEN sg ELSE 0]]] :
        sg \in {1, -1}}

\* the caller's array is the object apply_pca centres in place
ApplyPcaPrecomputed ==
    /\ call = NoCall
    /\ \E n \in 1..data.cols :
         \E d \in Projections(data.cols, n) :
           /\ call' = [op |-> "apply_pca", d |-> d]
           /\ result' = apply_pca_precomputed(data, d)
           /\ data' = InPlaceCenter(data)
    /\ UNCHANGED indices

\* fractions of explained variance tried, in units of 1 / FracDen
FractionValues == {0, FracDen - 1}

\* cumulative explained-variance ratios of m components: the shares do not increase
\* from one component to the next and add up to one
CumRatios(m) ==
    {cum \in [0..(m - 1) -> 1..FracDen] :
        /\ cum[m - 1] = FracDen
        /\ \A i \in 1..(m - 1) : cum[i] >= cum[i - 1]
        /\ \A i \in 1..(m - 1) :
              cum[i] - cum[i - 1] <= (IF i = 1 THEN cum[0] ELSE cum[i - 1] - cum[i - 2])}

ApplyPcaFraction ==
    /\ call = NoCall
    /\ data.rows >= 2
    /\ data.rows <= MaxCompRows
    /\ \E dnum \in FractionValues, cum \in CumRatios(Min2(data.rows, data.cols)) :
         \E Z \in Transforms(data.rows, Min2(data.rows, data.cols)) :
           /\ call' = [op |-> "apply_pca", d |-> [ty |-> "float", num |-> dnum, den |-> FracDen],
                       transformed |-> Z, cumulative |-> cum]
           /\ result' = apply_pca_fraction(data, dnum, Z, cum)
    /\ UNCHANGED <<data, indices>>

\* strengths tried for dampen_peaks: the default 5 and the explicit small bases
DampenPeaks ==
    /\ call = NoCall
    /\ \E strength \in (2..MaxStrength) \cup {5} :
         /\ call' = [op |-> "dampen_peaks", strength |-> strength]
         /\ result' = dampen_peaks(data, strength)
    /\ UNCHANGED <<data, indices>>

Next ==
    \/ BuildDataAutoregressive
    \/ BuildDataPartialConnectivity
    \/ BuildDataTde
    \/ PreprocessData
    \/ ApplyPca
    \/ ApplyIca
    \/ ApplyPcaPrecomputed
    \/ ApplyPcaFraction
    \/ DampenPeaks

Spec == Init /\ [][Next]_vars

----------------------------------------------------------------------------
(* Properties *)

IsAr == call.op = "build_data_autoregressive"
IsTde == call.op = "build_data_tde"
IsPartial == call.op = "build_data_partial_connectivity"

AllLonger(ix, w) == \A j \in DOMAIN ix : SegLen(ix, j) > w

\* sum over the segments of (Ti - w)
TrimmedTotal(ix, w) == SumTo([j \in DOMAIN ix |-> SegLen(ix, j) - w], NSeg(ix))

\* the SegmentIndex inew is contiguous from 0, segment j has length Ti - w, and it spans rows rows
Rebuilt(inew, ix, w, rows) ==
    /\ DOMAIN inew = DOMAIN ix
    /\ inew[0][1] = 0
    /\ \A j \in DOMAIN ix : inew[j][2] - inew[j][1] = SegLen(ix, j) - w
    /\ \A j \in DOMAIN ix : (j + 1) \in DOMAIN ix => inew[j + 1][1] = inew[j][2]
    /\ inew[NSeg(ix) - 1][2] = rows

\* C1: build_data_autoregressive with order k >= 1 on any SegmentIndex of the input
\* contract whose segments are all longer than k returns X and Y with sum_i(Ti - k)
\* rows and a SegmentIndex that is contiguous from 0, has per-segment length Ti - k
\* and spans exactly the rows of X and Y.
C1_ArRowCountAndIndex ==
    (IsAr /\ call.order >= 1 /\ AllLonger(indices, call.order)) =>
        /\ result.status = "ok"
        /\ result.X.rows = TrimmedTotal(indices, call.order)
        /\ result.Y.rows = TrimmedTotal(indices, call.order)
        /\ Rebuilt(result.indices_new, indices, call.order, result.X.rows)

\* window of a lag list
Window(lags) == SeqMax(lags) - SeqMin(lags)

\* C2: build_data_tde succeeds for every integer lag list (any mix of signs, also with
\* maximum <= 0 or minimum > 0) and every SegmentIndex whose segments are all longer
\* than window = max(lags) - min(lags); X has sum_i(Ti - window) rows and p*len(lags)
\* columns, and the returned SegmentIndex is contiguous from 0 with per-segment length
\* Ti - window and total span equal to the rows of X.
C2_TdeRowCountAndIndex ==
    (IsTde /\ AllLonger(indices, Window(call.lags))) =>
        /\ result.status = "ok"
        /\ result.X.rows = TrimmedTotal(indices, Window(call.lags))
        /\ result.X.cols = data.cols * Len(call.lags)
        /\ Rebuilt(result.indices_new, indices, Window(call.lags), result.X.rows)

\* C3: build_data_tde never embeds a wrapped-around sample: for every segment, output
\* row r and lag l, the entry of (lag l, channel c) is the segment's sample at the
\* position reached from the row's clip position by the shift l without reduction
\* modulo Ti, and that position lies in [0, Ti).
C3_TdeNoWrappedSample ==
    (IsTde /\ result.status = "ok") =>
        \A j \in DOMAIN indices :
            LET s    == indices[j][1]
                Ti   == SegLen(indices, j)
                keep == TdeClip(SeqMin(call.lags), SeqMax(call.lags), Ti)
                L    == Len(call.lags)
            IN  \A m \in DOMAIN keep, i \in 1..L, c \in 0..(data.cols - 1) :
                    LET src == RollSource(keep[m], call.lags[i])
                    IN  /\ src \in 0..(Ti - 1)
                        /\ result.X.at[result.indices_new[j][1] + m - 1][(i - 1) + c * L]
                              = data.at[s + src][c]

\* C4: build_data_tde with lags = [0] (no PCA) succeeds and returns an X with the rows
\* and columns of the input, equal to the globally standardised input, and a
\* SegmentIndex with the input's per-segment lengths.
C4_TdeLagZeroIsStandardisedCopy ==
    (IsTde /\ call.lags = <<0>>) =>
        /\ result.status = "ok"
        /\ Shape(result.X) = Shape(data)
        /\ result.X.at = data.at
        /\ result.standardised = "global"
        /\ \A j \in DOMAIN indices :
              result.indices_new[j][2] - result.indices_new[j][1] = SegLen(indices, j)

\* the channels a builder was given as regressors, and the connectivity it was given
ConnGiven == call.connectivity # None
LagBlocks == IF IsAr THEN call.order ELSE 1

\* C5: connectivity pruning keeps the outputs dimensionally consistent in both
\* build_data_partial_connectivity and build_data_autoregressive: the returned X has
\* only the columns of regressors with a permitted edge, the returned Y only the
\* targets with a permitted edge, and the returned connectivity has (columns of X)
\* rows and (columns of Y) columns, holding the original entries of the survivors in
\* their original order.
C5_PruningDimensionallyConsistent ==
    ((IsPartial \/ (IsAr /\ call.order >= 1)) /\ ConnGiven /\ result.status = "ok") =>
        LET conn == call.connectivity
            aX   == ActiveX(conn)
            aY   == ActiveY(conn)
            cn   == result.connectivity_new
        IN  /\ result.X.cols = LagBlocks * Len(aX)
            /\ result.Y.cols = Len(aY)
            /\ cn.rows = result.X.cols
            /\ cn.cols = result.Y.cols
            /\ \A r \in 0..(cn.rows - 1), c \in 0..(cn.cols - 1) :
                  cn.at[r][c] = conn.at[aX[(r % Len(aX)) + 1]][aY[c + 1]]

\* C6: build_data_autoregressive with order k >= 1, no connectivity, centering off:
\* for segment [s, e) and r in 0..(e-s-k-1), output row new_start + r has Y equal to
\* the sample at t = s + k + r and predictor column i*p + c equal to channel c at
\* time t - (i+1); every time used lies in [s, e).
C6_ArRowContents ==
    (IsAr /\ call.order >= 1 /\ call.connectivity = None /\ ~call.center_data
          /\ result.status = "ok") =>
        \A j \in DOMAIN indices :
            LET s  == indices[j][1]
                e  == indices[j][2]
                k  == call.order
                p  == data.cols
                ns == result.indices_new[j][1]
            IN  \A r \in 0..(e - s - k - 1) :
                    LET t == s + k + r
                    IN  /\ t \in s..(e - 1)
                        /\ result.Y.at[ns + r] = data.at[t]
                        /\ \A i \in 0..(k - 1), c \in 0..(p - 1) :
                              /\ (t - (i + 1)) \in s..(e - 1)
                              /\ result.X.at[ns + r][i * p + c] = data.at[t - (i + 1)][c]

C6_Witness ==
    /\ IsAr /\ call.order = 2 /\ call.connectivity = None /\ ~call.center_data
    /\ result.status = "ok"
    /\ NSeg(indices) = 2
    /\ data.cols = 2
    /\ result.indices_new[1] = <<1, 2>>

\* C7: build_data_autoregressive with order 0 is a no-op: it warns and returns an
\* empty predictor matrix, the data as Y, the SegmentIndex and the connectivity it
\* was given, without raising.
C7_ArOrderZeroNoOp ==
    (IsAr /\ call.order = 0) =>
        /\ result.status = "ok"
        /\ result.warned
        /\ result.X.rows = 0
        /\ result.Y = data
        /\ result.indices_new = indices
        /\ result.connectivity_new = call.connectivity

C7_Witness ==
    /\ IsAr /\ call.order = 0 /\ call.connectivity # None
    /\ result.status = "ok" /\ result.warned
    /\ NSeg(indices) = 2 /\ data.rows >= 3


IsPreprocess == call.op = "preprocess_data"
IsReducer == call.op \in {"apply_pca", "apply_ica"}

\* C8: resampling in preprocess_data with integer rates: with up/down the ratio
\* downsample/fs in lowest terms, segment j gets new length ceil(up*Ti/down), which is
\* the number of rows resample_poly returns for it, so the call succeeds and every
\* segment fills its range; the returned SegmentIndex is contiguous from 0 and spans
\* the returned rows.  Without downsample the SegmentIndex and row count are the input's.
C8_ResampleLengths ==
    IsPreprocess =>
        IF call.cfg.downsample = None
        THEN result.status = "ok" /\ result.indices_new = indices /\ result.rows = data.rows
        ELSE LET g    == Gcd(call.cfg.downsample.v, call.cfg.fs)
                 up   == call.cfg.downsample.v \div g
                 down == call.cfg.fs \div g
             IN  /\ result.status = "ok"
                 /\ result.indices_new[0][1] = 0
                 /\ \A j \in DOMAIN indices :
                       /\ result.indices_new[j][2] - result.indices_new[j][1]
                            = ResamplePolyLen(SegLen(indices, j), up, down)
                       /\ (j + 1) \in DOMAIN indices =>
                            result.indices_new[j + 1][1] = result.indices_new[j][2]
                 /\ result.indices_new[NSeg(indices) - 1][2] = result.rows

\* C9: after apply_pca / apply_ica, in every retained component the first sample of
\* maximal absolute value is non-negative.
C9_SignConvention ==
    (IsReducer /\ result.status = "ok") =>
        \A j \in 0..(result.X.cols - 1) :
            \A r \in 0..(result.X.rows - 1) :
                ((\A q \in 0..(result.X.rows - 1) : Abs(result.X.at[q][j]) <= Abs(result.X.at[r][j]))
                 /\ (\A q \in 0..(r - 1) : Abs(result.X.at[q][j]) < Abs(result.X.at[r][j])))
                => result.X.at[r][j] >= 0

StagesNamed(name) == {i \in DOMAIN result.stages : result.stages[i].stage = name}

\* C10: in preprocess_data, dampen_extreme_peaks = True dampens with base 5, an
\* explicit integer b dampens with base b, and None (or a disabled value) applies
\* neither the centering nor the dampening.
C10_DampenStrength ==
    IsPreprocess =>
        LET dep == call.cfg.dampen_extreme_peaks
            dmp == StagesNamed("dampen_peaks")
        IN  /\ dep = PyBool(TRUE) =>
                  \E i \in dmp : PyNum(result.stages[i].strength) = 5
            /\ dep.ty = "int" =>
                  \E i \in dmp : PyNum(result.stages[i].strength) = dep.v
            /\ (dep = None \/ dep = PyBool(FALSE)) =>
                  dmp = {} /\ StagesNamed("center") = {}

\* C11: in preprocess_data the post-reduction standardisation runs exactly when a
\* reduction ran and the post_standardise flag resolves to enabled.  ICA runs when ica
\* is configured (not None); PCA runs when pca is configured and ica is not.  An unset
\* flag resolves to enabled when ICA ran and to disabled otherwise; an explicit
\* True/False is taken as given.  This holds for the component value 0 as well.
C11_PostStandardiseCondition ==
    IsPreprocess =>
        LET pca      == call.cfg.pca
            ica      == call.cfg.ica
            post     == call.cfg.post_standardise
            icaRan   == ica # None
            pcaRan   == pca # None /\ ica = None
            resolved == IF post = None THEN icaRan ELSE post.v
        IN  /\ (StagesNamed("ica") # {}) <=> icaRan
            /\ (StagesNamed("pca") # {}) <=> pcaRan
            /\ (StagesNamed("post_standardise") # {}) <=> ((pcaRan \/ icaRan) /\ resolved)

\* C12: no public operation changes what the caller's arguments hold: across every
\* call (apply_pca with an integer, a fraction or a precomputed projection matrix,
\* apply_ica, dampen_peaks, preprocess_data and the three builders) the caller's data
\* array and SegmentIndex keep the values they had before the call.
C12_NoCallerMutation == [][data' = data /\ indices' = indices]_vars

HasShortSegment(ix, w) == \E j \in DOMAIN ix : SegLen(ix, j) <= w

\* C13: when some segment (first, middle or last) is not longer than the window
\* (the order k >= 1 of build_data_autoregressive, max(lags) - min(lags) of
\* build_data_tde), the builder returns no result: an error reaches the caller, and
\* it is raised before X/Y are allocated and before any segment is filled.
C13_WindowPrecondition ==
    ((IsAr /\ call.order >= 1 /\ HasShortSegment(indices, call.order))
       \/ (IsTde /\ HasShortSegment(indices, Window(call.lags)))) =>
        /\ result.status # "ok"
        /\ ~result.allocated
        /\ result.filled = 0

====
